---- MODULE Spec2Model ----
(***************************************************************************)
(* A model of VegProcessor: the Zone V vegetation transition               *)
(* (veg_logic.py, zone_v), the date extractor (utils.py, extract_date) and *)
(* the analog-year sequence generator (utils.py,                           *)
(* generate_combined_sequence).                                            *)
(*                                                                         *)
(* Three specifications share the module:                                  *)
(*   SpecZone  successive zone_v invocations on one vegetation grid        *)
(*   SpecDate  extract_date applied to file paths                          *)
(*   SpecSeq   runs of generate_combined_sequence on a file system         *)
(* Each one holds the variables of the other two at a fixed idle value.    *)
(***************************************************************************)
EXTENDS Integers, Sequences, FiniteSets, TLC

VARIABLES
    \* ---- zone_v ----
    veg_type,        \* the vegetation grid (np.ndarray, mutated in place)
    veg_type_input,  \* the copy zone_v takes on entry (veg_logic.py:33)
    water_depth,     \* the dataset passed to the last zone_v call
    date,            \* the reference date passed to the last zone_v call
    \* ---- extract_date ----
    path,            \* the path handed to extract_date
    extracted,       \* what extract_date returned for it ("pending" before the call)
    \* ---- generate_combined_sequence ----
    fs,              \* the file system: path -> content
    args,            \* the arguments of the run
    pc,              \* position in generate_combined_sequence
    source_files,    \* the catalog listed at lines 38-40
    idx,             \* index of the quintile_sequence row being processed
    source_year_paths, \* the sorted selection of the current row (lines 52-55)
    copies,          \* the copy steps done in this run, in order (lines 63, 74, 77)
    err,             \* the exception that ended the run, or "none"
    run,             \* 1 for the first run, 2 for the re-run with the same arguments
    first,           \* outcome of the first run, kept for the re-run
    fs_start         \* the file system as it was when the current run was called

zoneVars == <<veg_type, veg_type_input, water_depth, date>>
dateVars == <<path, extracted>>
seqVars  == <<fs, args, pc, source_files, idx, source_year_paths, copies, err, run, first,
             fs_start>>
vars     == <<zoneVars, dateVars, seqVars>>

(***************************************************************************)
(*                               zone_v                                    *)
(***************************************************************************)

\* ---- bounds and input sets of the zone model ----
NumCells == 2
Cells == 1 .. NumCells

\* Zone codes: 15 (Zone V), 16 (its successor) and one code no rule reads.
ZoneV == 15
ZoneVSuccessor == 16
Codes == {14, ZoneV, ZoneVSuccessor}

\* The simulated year of the depth series; reference dates fall in it or in
\* the year after it (whose windows select no step of the series).
DataYear == 2030
Dates == { [year |-> DataYear, month |-> 6, day |-> 15],
           [year |-> DataYear + 1, month |-> 1, day |-> 1] }

\* The time axis of the depth series, as (year, month) steps in increasing
\* order: Feb, Mar, Apr, Jun, Jul, Aug, Sep, Oct of DataYear.  March and
\* April lie in the March-May window; April and June-September are the five
\* growing-season steps, so one wet step is exactly 20%.
TimeAxis == << [year |-> DataYear, month |-> 2], [year |-> DataYear, month |-> 3],
               [year |-> DataYear, month |-> 4], [year |-> DataYear, month |-> 6],
               [year |-> DataYear, month |-> 7], [year |-> DataYear, month |-> 8],
               [year |-> DataYear, month |-> 9], [year |-> DataYear, month |-> 10] >>

\* Depth series one cell can have over TimeAxis.
\*                    Feb Mar Apr Jun Jul Aug Sep Oct
DepthSeries == { <<  1,  0,  1,  1,  0,  0,  0,  0 >>,  \* dry in March, wet 2 of 5
                 <<  1,  0,  1,  0,  0,  0,  0,  1 >>,  \* dry in March, wet 1 of 5 (20%)
                 <<  0,  1,  1,  0,  1,  1,  1,  0 >>,  \* dry in Feb and June only
                 <<  1,  1,  1,  1,  1,  1,  1,  1 >>,  \* always wet
                 <<  0,  0,  0,  0,  0,  0,  0,  0 >>,  \* always dry (depth 0)
                 <<  1,  1, -1,  1,  1,  1,  1,  1 >>,  \* negative depth in April
                 <<  1,  1,  0,  0,  0,  0,  0,  1 >> } \* dry in April, wet 0 of 5

\* An xr.Dataset: a sequence of time steps, each with its time coordinate and
\* the WSE_MEAN value of every cell.
Dataset(series) ==
    [t \in 1 .. Len(TimeAxis) |->
        [time |-> TimeAxis[t], WSE_MEAN |-> [c \in Cells |-> series[c][t]]]]

Datasets == { Dataset(series) : series \in [Cells -> DepthSeries] }

NoDataset == << >>

\* ---- the code ----

\* water_depth.sel(time=slice(f"{year}-MM", f"{year}-MM")): the steps whose
\* time lies in the months first..last of the year, in order.
InWindow(step, year, firstMonth, lastMonth) ==
    /\ step.time.year = year
    /\ firstMonth <= step.time.month
    /\ step.time.month <= lastMonth

Sel(ds, year, firstMonth, lastMonth) ==
    SelectSeq(ds, LAMBDA step : InWindow(step, year, firstMonth, lastMonth))

\* Window months and thresholds of the rule.
SpringStart == 3
SpringEnd == 5
GrowingSeasonStart == 4
GrowingSeasonEnd == 9
GSThresholdPct == 20

\* (filtered_1["WSE_MEAN"] <= 0).any(dim="time")
Condition1(ds, d, c) ==
    LET filtered_1 == Sel(ds, d.year, SpringStart, SpringEnd)
    IN  \E t \in 1 .. Len(filtered_1) : filtered_1[t].WSE_MEAN[c] <= 0

\* Variant of Condition2 comparing with >= instead of >.
Condition2AtLeast(ds, d, c) ==
    LET filtered_2 == Sel(ds, d.year, GrowingSeasonStart, GrowingSeasonEnd)
        wet == Cardinality({ t \in 1 .. Len(filtered_2) : filtered_2[t].WSE_MEAN[c] > 0 })
        n == Len(filtered_2)
    IN  /\ n > 0
        /\ wet * 100 >= GSThresholdPct * n

\* (filtered_2["WSE_MEAN"] > 0).mean(dim="time") > 0.2; the mean of an empty
\* window is NaN, and NaN > 0.2 is False.
Condition2(ds, d, c) ==
    LET filtered_2 == Sel(ds, d.year, GrowingSeasonStart, GrowingSeasonEnd)
        wet == Cardinality({ t \in 1 .. Len(filtered_2) : filtered_2[t].WSE_MEAN[c] > 0 })
        n == Len(filtered_2)
    IN  /\ n > 0
        /\ wet * 100 > GSThresholdPct * n

\* Variant of TypeMask selecting every cell that is not yet the successor.
TypeMaskNotSuccessor(veg, c) == veg[c] # ZoneVSuccessor

\* type_mask = veg_type == 15
TypeMask(veg, c) == veg[c] = ZoneV

CombinedMask(veg, ds, d, c) ==
    /\ TypeMask(veg, c)
    /\ Condition1(ds, d, c) /\ Condition2(ds, d, c)

\* veg_type[combined_mask] = 16
ZoneVResult(veg, ds, d) ==
    [c \in Cells |-> IF CombinedMask(veg, ds, d, c) THEN ZoneVSuccessor ELSE veg[c]]

\* One invocation of zone_v on the grid, with this year's depth series and
\* reference date.
zone_v ==
    \E ds \in Datasets, d \in Dates :
        /\ veg_type_input' = veg_type
        /\ veg_type' = ZoneVResult(veg_type, ds, d)
        /\ water_depth' = ds
        /\ date' = d
        /\ UNCHANGED <<dateVars, seqVars>>

(***************************************************************************)
(*                 strings, paths and extract_date                         *)
(***************************************************************************)

\* A string is a sequence of one-character strings; a pathlib.Path is the
\* sequence of its parts.

Digits == {"0", "1", "2", "3", "4", "5", "6", "7", "8", "9"}

\* The characters used, in code-point order (Python compares strings by code
\* point).
AsciiOrder == << " ", ".", "0", "1", "2", "3", "4", "5", "6", "7", "8", "9",
                 "A", "E", "L", "M", "N", "R", "S", "W", "_",
                 "a", "b", "c", "f", "g", "i", "o", "r", "s", "t", "u", "z" >>

Ord == [ c \in { AsciiOrder[i] : i \in 1 .. Len(AsciiOrder) } |->
            CHOOSE i \in 1 .. Len(AsciiOrder) : AsciiOrder[i] = c ]

DigitValue == [ c \in Digits |-> Ord[c] - Ord["0"] ]

\* str < str
RECURSIVE StrLess(_, _)
StrLess(a, b) ==
    IF a = << >> THEN b # << >>
    ELSE IF b = << >> THEN FALSE
    ELSE IF Head(a) = Head(b) THEN StrLess(Tail(a), Tail(b))
    ELSE Ord[Head(a)] < Ord[Head(b)]

\* Path.__lt__: the lists of parts compare lexicographically
RECURSIVE PathLess(_, _)
PathLess(p, q) ==
    IF p = << >> THEN q # << >>
    ELSE IF q = << >> THEN FALSE
    ELSE IF Head(p) = Head(q) THEN PathLess(Tail(p), Tail(q))
    ELSE StrLess(Head(p), Head(q))

\* sub in s
Contains(s, sub) ==
    \E i \in 1 .. (Len(s) - Len(sub) + 1) : SubSeq(s, i, i + Len(sub) - 1) = sub

\* sep.join(tokens)
RECURSIVE Join(_, _)
Join(tokens, sep) ==
    IF tokens = << >> THEN << >>
    ELSE IF Len(tokens) = 1 THEN tokens[1]
    ELSE tokens[1] \o sep \o Join(Tail(tokens), sep)

\* s.split(sep) for a one-character separator
RECURSIVE Split(_, _)
Split(s, sep) ==
    IF \A i \in 1 .. Len(s) : s[i] # sep THEN << s >>
    ELSE LET p == CHOOSE i \in 1 .. Len(s) :
                      s[i] = sep /\ \A j \in 1 .. (i - 1) : s[j] # sep
         IN  << SubSeq(s, 1, p - 1) >> \o Split(SubSeq(s, p + 1, Len(s)), sep)

\* str(path)
PathStr(p) == Join(p, << "/" >>)

\* path.name and path.stem: the name up to its last dot, unless that dot is
\* the first or the last character
Name(p) == p[Len(p)]

Stem(p) ==
    LET name == Name(p)
        dots == { i \in 1 .. Len(name) : name[i] = "." }
    IN  IF dots = {} THEN name
        ELSE LET last == CHOOSE i \in dots : \A j \in dots : j <= i
             IN  IF 1 < last /\ last < Len(name) THEN SubSeq(name, 1, last - 1)
                 ELSE name

\* int(s) for a string of digits
RECURSIVE IntOf(_)
IntOf(s) ==
    IF s = << >> THEN 0
    ELSE 10 * IntOf(SubSeq(s, 1, Len(s) - 1)) + DigitValue[s[Len(s)]]

AllDigits(s) == \A i \in 1 .. Len(s) : s[i] \in Digits

IsLeap(y) == y % 4 = 0 /\ (y % 100 # 0 \/ y % 400 = 0)

DaysInMonth(y, m) ==
    IF m = 2 THEN (IF IsLeap(y) THEN 29 ELSE 28)
    ELSE IF m \in {4, 6, 9, 11} THEN 30
    ELSE 31

\* The directives of strptime, as the regular expressions of _strptime:
\*   %Y  \d\d\d\d
\*   %m  1[0-2]|0[1-9]|[1-9]
\*   %d  3[0-1]|[1-2]\d|0[1-9]|[1-9]| [1-9]
MatchesY(t) == Len(t) = 4 /\ AllDigits(t)

MatchesM(t) ==
    \/ Len(t) = 2 /\ t[1] = "1" /\ t[2] \in {"0", "1", "2"}
    \/ Len(t) = 2 /\ t[1] = "0" /\ t[2] \in Digits \ {"0"}
    \/ Len(t) = 1 /\ t[1] \in Digits \ {"0"}

MatchesD(t) ==
    \/ Len(t) = 2 /\ t[1] = "3" /\ t[2] \in {"0", "1"}
    \/ Len(t) = 2 /\ t[1] \in {"1", "2"} /\ t[2] \in Digits
    \/ Len(t) = 2 /\ t[1] = "0" /\ t[2] \in Digits \ {"0"}
    \/ Len(t) = 1 /\ t[1] \in Digits \ {"0"}
    \/ Len(t) = 2 /\ t[1] = " " /\ t[2] \in Digits \ {"0"}

Datetime(y, m, d) == [kind |-> "datetime", year |-> y, month |-> m, day |-> d]
None == [kind |-> "None"]
ValueError == [kind |-> "ValueError"]

\* datetime.strptime(s, "%Y_%m_%d").  The format has two underscores and no
\* directive matches one, so the whole string matches exactly when it splits
\* at "_" into three tokens matching %Y, %m and %d; the date must then exist
\* (year >= 1, day within the month), else ValueError.
Strptime(s) ==
    LET t == Split(s, "_")
    IN  IF Len(t) = 3 /\ MatchesY(t[1]) /\ MatchesM(t[2]) /\ MatchesD(t[3])
        THEN LET y == IntOf(t[1])
                 m == IntOf(t[2])
                 d == IntOf(SelectSeq(t[3], LAMBDA c : c # " "))
             IN  IF y >= 1 /\ d <= DaysInMonth(y, m) THEN Datetime(y, m, d)
                 ELSE ValueError
        ELSE ValueError

\* Variant of LastThree taking the first three tokens.
FirstThree(tokens) == SubSeq(tokens, 1, IF Len(tokens) < 3 THEN Len(tokens) ELSE 3)

\* tokens[-3:]
LastThree(tokens) ==
    SubSeq(tokens, IF Len(tokens) > 3 THEN Len(tokens) - 2 ELSE 1, Len(tokens))

\* extract_date(path): utils.py lines 100-106
extract_date(p) ==
    LET date_str == Join(LastThree(Split(Stem(p), "_")), << "_" >>)
        parsed == Strptime(date_str)
    IN  IF parsed = ValueError THEN None ELSE parsed


\* str(n) for n >= 0, and f"{n:02d}"
DigitChar == [ d \in 0 .. 9 |-> CHOOSE c \in Digits : DigitValue[c] = d ]

RECURSIVE Str(_)
Str(n) == IF n < 10 THEN << DigitChar[n] >> ELSE Str(n \div 10) \o << DigitChar[n % 10] >>

Pad2(n) == IF n < 10 THEN << "0" >> \o Str(n) ELSE Str(n)

\* ---- the paths extract_date is applied to ----

MaxTokens == 4

DateTokens == { << "W", "S", "E" >>, << >>, << "2", "0", "0", "4" >>,
                << "1", "9", "0", "0" >>, << "0", "2" >>, << "2" >>,
                << "1", "3" >>, << "2", "9" >>, << " ", "5" >> }

TokenSeqs(maxLen) == UNION { [1 .. n -> DateTokens] : n \in 0 .. maxLen }

Extensions == { << ".", "t", "i", "f" >>, << ".", "t", "a", "r", ".", "g", "z" >> }

SourceRoot == << "s", "r", "c" >>

DatePaths ==
    { << SourceRoot, Join(tokens, << "_" >>) \o ext >> :
        tokens \in TokenSeqs(MaxTokens), ext \in Extensions }

Pending == [kind |-> "pending"]

\* One call of extract_date on the path.
ExtractDate ==
    /\ extracted = Pending
    /\ extracted' = extract_date(path)
    /\ UNCHANGED <<path, zoneVars, seqVars>>

(***************************************************************************)
(*                    generate_combined_sequence                           *)
(***************************************************************************)

\* The file system is a function from the paths of the files that exist to
\* their content.  A source raster's content is named after the path it was
\* first stored under, so a copy is recognisable as a copy of that raster.

TifSuffix == << ".", "t", "i", "f" >>
SLRMarker == << "S", "L", "R" >>
OutputPrefix == << "W", "S", "E", "_", "M", "E", "A", "N", "_" >>

\* The least number of files a source water year must have (line 59).
MinFiles == 12

IsUnder(p, folder) ==
    Len(p) > Len(folder) /\ SubSeq(p, 1, Len(folder)) = folder

EndsWith(str, suffix) ==
    Len(str) >= Len(suffix)
    /\ SubSeq(str, Len(str) - Len(suffix) + 1, Len(str)) = suffix

\* lines 36-40: path.rglob("*.tif") without the paths that contain "SLR"
ListSourceFiles(fsys, a) ==
    { p \in DOMAIN fsys :
        /\ IsUnder(p, a.source_folder)
        /\ EndsWith(Name(p), TifSuffix)
        /\ ~Contains(PathStr(p), SLRMarker) }

\* datetime <= datetime
DateLeq(d1, d2) ==
    \/ d1.year < d2.year
    \/ d1.year = d2.year /\ d1.month < d2.month
    \/ d1.year = d2.year /\ d1.month = d2.month /\ d1.day <= d2.day

\* sorted(paths): the paths in increasing order
RECURSIVE SortPaths(_)
SortPaths(S) ==
    IF S = {} THEN << >>
    ELSE LET least == CHOOSE p \in S : \A q \in S : q = p \/ PathLess(p, q)
         IN  << least >> \o SortPaths(S \ {least})

\* Variant of InSourceYear taking the calendar year of the source year.
InCalendarYear(d, source_year) == d.year = source_year

\* start <= extract_date(path) <= end, for a path that has a date
InSourceYear(d, source_year) ==
    /\ DateLeq(Datetime(source_year - 1, 10, 1), d)
    /\ DateLeq(d, Datetime(source_year, 9, 30))

\* lines 47-60 for row i: the sorted selection of the row, or the exception.
\* Comparing a datetime with the None of an undated file raises TypeError.
SelectRow(files, a, i) ==
    LET row == a.quintile_sequence[i]
        source_year == a.quintile_to_year_map[row.Quintile]
        dateOf == [p \in files |-> extract_date(p)]
    IN  IF \E p \in files : dateOf[p] = None
        THEN [err |-> "TypeError", paths |-> << >>]
        ELSE LET chosen == SortPaths({ p \in files : InSourceYear(dateOf[p], source_year) })
             IN  IF Len(chosen) < MinFiles
                 THEN [err |-> "ValueError", paths |-> << >>]
                 ELSE [err |-> "none", paths |-> chosen]

\* Variant of ReplacementYear keeping the target year for every month.
ReplacementYearSame(analog_year, file_date) == analog_year

\* lines 67-70
ReplacementYear(analog_year, file_date) ==
    IF file_date.month \in {10, 11, 12} THEN analog_year - 1 ELSE analog_year

\* Variant of NewFileName that writes the day where the month belongs.
NewFileNameDayTwice(analog_year, file_date) ==
    OutputPrefix \o Str(ReplacementYear(analog_year, file_date)) \o << "_" >>
        \o Pad2(file_date.day) \o << "_" >> \o Pad2(file_date.day) \o TifSuffix

\* line 73
NewFileName(analog_year, file_date) ==
    OutputPrefix \o Str(ReplacementYear(analog_year, file_date)) \o << "_" >>
        \o Pad2(file_date.month) \o << "_" >> \o Pad2(file_date.day) \o TifSuffix

\* os.path.join(output_folder, new_file_name)
DestFile(a, analog_year, file_date) ==
    a.output_folder \o << NewFileName(analog_year, file_date) >>

\* Variant of CopyFrom whose copy refuses a destination that already exists.
RECURSIVE CopyFromNoOverwrite(_, _, _, _, _, _)
CopyFromNoOverwrite(fsys, done, paths, k, a, i) ==
    IF k > Len(paths) THEN [fs |-> fsys, copies |-> done, err |-> "none"]
    ELSE LET src == paths[k]
             dest == DestFile(a, a.quintile_sequence[i].WaterYear, extract_date(src))
         IN  IF dest \in DOMAIN fsys
             THEN [fs |-> fsys, copies |-> done, err |-> "FileExistsError"]
             ELSE CopyFromNoOverwrite([q \in (DOMAIN fsys) \cup {dest} |->
                                          IF q = dest THEN fsys[src] ELSE fsys[q]],
                                      Append(done, [row |-> i, src |-> src, dest |-> dest]),
                                      paths, k + 1, a, i)

\* lines 62-77 from the k-th selected path on: each file is copied under its
\* new name; shutil.copy raises SameFileError when source and destination
\* are the same file, and the files copied before it stay copied.
RECURSIVE CopyFrom(_, _, _, _, _, _)
CopyFrom(fsys, done, paths, k, a, i) ==
    IF k > Len(paths) THEN [fs |-> fsys, copies |-> done, err |-> "none"]
    ELSE LET src == paths[k]
             dest == DestFile(a, a.quintile_sequence[i].WaterYear, extract_date(src))
         IN  IF src = dest
             THEN [fs |-> fsys, copies |-> done, err |-> "SameFileError"]
             ELSE CopyFrom([q \in (DOMAIN fsys) \cup {dest} |->
                               IF q = dest THEN fsys[src] ELSE fsys[q]],
                           Append(done, [row |-> i, src |-> src, dest |-> dest]),
                           paths, k + 1, a, i)

\* The whole of generate_combined_sequence as a function of the file system
\* and the arguments: lines 46-79 from row i on, and lines 35-82.
RECURSIVE RunRows(_, _, _, _, _)
RunRows(fsys, files, a, i, done) ==
    IF i > Len(a.quintile_sequence) THEN [fs |-> fsys, copies |-> done, err |-> "none"]
    ELSE LET sel == SelectRow(files, a, i)
         IN  IF sel.err # "none" THEN [fs |-> fsys, copies |-> done, err |-> sel.err]
             ELSE LET res == CopyFrom(fsys, done, sel.paths, 1, a, i)
                  IN  IF res.err # "none" THEN res
                      ELSE RunRows(res.fs, files, a, i + 1, res.copies)

RunResult(fsys, a) ==
    LET files == ListSourceFiles(fsys, a)
    IN  IF files = {} THEN [fs |-> fsys, copies |-> << >>, err |-> "FileNotFoundError"]
        ELSE RunRows(fsys, files, a, 1, << >>)

\* ---- the actions ----

\* lines 35-43: list the catalog; an empty catalog ends the run.
Start ==
    /\ pc = "start"
    /\ LET files == ListSourceFiles(fs, args)
       IN  /\ source_files' = files
           /\ IF files = {}
              THEN pc' = "failed" /\ err' = "FileNotFoundError" /\ idx' = idx
              ELSE pc' = "loop" /\ err' = err /\ idx' = 1
    /\ UNCHANGED <<fs, args, source_year_paths, copies, run, first, fs_start,
                   zoneVars, dateVars>>

\* lines 46-60: the next row's selection and its completeness check.
LoopRow ==
    /\ pc = "loop"
    /\ idx <= Len(args.quintile_sequence)
    /\ LET sel == SelectRow(source_files, args, idx)
       IN  /\ source_year_paths' = sel.paths
           /\ err' = sel.err
           /\ pc' = IF sel.err = "none" THEN "copy" ELSE "failed"
    /\ UNCHANGED <<fs, args, source_files, idx, copies, run, first, fs_start,
                   zoneVars, dateVars>>

\* lines 62-79: copy the row's files under their new names.
CopyRow ==
    /\ pc = "copy"
    /\ LET res == CopyFrom(fs, copies, source_year_paths, 1, args, idx)
       IN  /\ fs' = res.fs
           /\ copies' = res.copies
           /\ err' = res.err
           /\ IF res.err = "none"
              THEN pc' = "loop" /\ idx' = idx + 1
              ELSE pc' = "failed" /\ idx' = idx
    /\ UNCHANGED <<args, source_files, source_year_paths, run, first, fs_start,
                   zoneVars, dateVars>>

\* lines 81-82: the loop is over.
Finish ==
    /\ pc = "loop"
    /\ idx > Len(args.quintile_sequence)
    /\ pc' = "done"
    /\ UNCHANGED <<fs, args, source_files, idx, source_year_paths, copies, err, run, first,
                   fs_start, zoneVars, dateVars>>

\* The files of the output folder, with their content.
OutputListing(fsys, a) ==
    { [name |-> p, content |-> fsys[p]] : p \in { q \in DOMAIN fsys : IsUnder(q, a.output_folder) } }

\* The caller runs generate_combined_sequence again with the same arguments.
Rerun ==
    /\ pc \in {"done", "failed"}
    /\ run = 1
    /\ first' = [err |-> err, output |-> OutputListing(fs, args)]
    /\ fs_start' = fs
    /\ run' = 2
    /\ pc' = "start"
    /\ source_files' = {}
    /\ idx' = 0
    /\ source_year_paths' = << >>
    /\ copies' = << >>
    /\ err' = "none"
    /\ UNCHANGED <<fs, args, zoneVars, dateVars>>


ZoneIdle ==
    /\ veg_type = [c \in Cells |-> ZoneV]
    /\ veg_type_input = veg_type
    /\ water_depth = NoDataset
    /\ date = [year |-> DataYear, month |-> 6, day |-> 15]

DateIdle ==
    /\ path = << >>
    /\ extracted = Pending

SeqIdle ==
    /\ fs = << >>
    /\ args = << >>
    /\ pc = "idle"
    /\ source_files = {}
    /\ idx = 0
    /\ source_year_paths = << >>
    /\ copies = << >>
    /\ err = "none"
    /\ run = 0
    /\ first = << >>
    /\ fs_start = << >>

InitZone ==
    /\ veg_type \in [Cells -> Codes]
    /\ veg_type_input = veg_type
    /\ water_depth = NoDataset
    /\ date \in Dates
    /\ DateIdle
    /\ SeqIdle

\* ---- the inputs of generate_combined_sequence ----

MaxRows == 2

\* The source water years the quintiles map to, and the target water years
\* of the rows.  Target 2005 coincides with a source year; 2006 does not.
QuintileToYear == (1 :> 2004) @@ (2 :> 2005)
TargetYears == {2005, 2006}

Rows == [WaterYear : TargetYears, Quintile : DOMAIN QuintileToYear]
QuintileSequences == UNION { [1 .. n -> Rows] : n \in 0 .. MaxRows }

SourceFolder == << SourceRoot >>
SubFolder == << SourceRoot, << "s", "u", "b" >> >>
OutputFolders == { << << "o", "u", "t" >> >>, << SourceRoot, << "o", "u", "t" >> >> }

\* 'WSE_YYYY_MM_DD.tif' in a folder
RasterFile(folder, y, m, d) ==
    folder \o << << "W", "S", "E", "_" >> \o Str(y) \o << "_" >> \o Pad2(m) \o << "_" >>
                  \o Pad2(d) \o TifSuffix >>

\* The months of water year wy, October of wy - 1 to September of wy.
WaterYearMonths(wy) ==
    { [year |-> wy - 1, month |-> m] : m \in 10 .. 12 } \cup
    { [year |-> wy, month |-> m] : m \in 1 .. 9 }

\* The day a monthly raster is dated: 1 October, 31 December, 1 January, the
\* last day of February, 30 September, else the 15th.
MonthlyDay(ym) ==
    CASE ym.month \in {10, 1} -> 1
      [] ym.month = 12 -> 31
      [] ym.month = 2 -> DaysInMonth(ym.year, 2)
      [] ym.month = 9 -> 30
      [] OTHER -> 15

Monthly(wy) ==
    { RasterFile(SourceFolder, ym.year, ym.month, MonthlyDay(ym)) : ym \in WaterYearMonths(wy) }

\* What the catalog holds for a source water year.
CatalogKinds == {"none", "monthly", "eleven", "october", "duplicate"}

YearFiles(kind, wy) ==
    CASE kind = "none" -> {}
      [] kind = "monthly" -> Monthly(wy)
      [] kind = "eleven" -> Monthly(wy) \ { RasterFile(SourceFolder, wy, 3, 15) }
      [] kind = "october" -> { RasterFile(SourceFolder, wy - 1, 10, d) : d \in 1 .. 12 }
      [] kind = "duplicate" -> Monthly(wy) \cup { RasterFile(SubFolder, wy, 1, 1) }

\* A .tif file without a date in its name.
UndatedFile == SourceFolder \o << << "W", "S", "E", "_", "a", "b", "c" >> \o TifSuffix >>

\* Files the catalog listing leaves out: a sea-level-rise variant and a file
\* that is no .tif, both dated in March 2004.
ExcludedFiles ==
    { SourceFolder \o << << "S", "L", "R", "_", "2", "0", "0", "4", "_", "0", "3", "_", "1", "5" >>
                          \o TifSuffix >>,
      SourceFolder \o << << "W", "S", "E", "_", "2", "0", "0", "4", "_", "0", "3", "_", "1", "5",
                            ".", "t", "a", "r", ".", "g", "z" >> >> }

Catalogs ==
    { YearFiles(k1, 2004) \cup YearFiles(k2, 2005) \cup undated \cup excluded :
        k1 \in CatalogKinds, k2 \in {"none", "monthly"},
        undated \in { {}, {UndatedFile} }, excluded \in { {}, ExcludedFiles } }

InitSeq ==
    /\ \E files \in Catalogs : fs = [p \in files |-> p]
    /\ \E rows \in QuintileSequences, out \in OutputFolders :
          args = [quintile_sequence |-> rows, quintile_to_year_map |-> QuintileToYear,
                  source_folder |-> SourceFolder, output_folder |-> out]
    /\ fs_start = fs
    /\ pc = "start"
    /\ source_files = {}
    /\ idx = 0
    /\ source_year_paths = << >>
    /\ copies = << >>
    /\ err = "none"
    /\ run = 1
    /\ first = << >>
    /\ ZoneIdle
    /\ DateIdle

NextSeq == Start \/ LoopRow \/ CopyRow \/ Finish \/ Rerun

SpecSeq == InitSeq /\ [][NextSeq]_vars

InitDate ==
    /\ path \in DatePaths
    /\ extracted = Pending
    /\ ZoneIdle
    /\ SeqIdle

NextDate == ExtractDate

SpecDate == InitDate /\ [][NextDate]_vars

NextZone == zone_v

SpecZone == InitZone /\ [][NextZone]_vars

\* ---- claims about zone_v ----

\* The time steps of the last call's depth series that fall in the months
\* first..last of the reference date's calendar year.
StepsIn(firstMonth, lastMonth) ==
    { t \in 1 .. Len(water_depth) :
        /\ water_depth[t].time.year = date.year
        /\ water_depth[t].time.month \in firstMonth .. lastMonth }

DryInSpring(c) == \E t \in StepsIn(3, 5) : water_depth[t].WSE_MEAN[c] <= 0

WetSteps(c) == { t \in StepsIn(4, 9) : water_depth[t].WSE_MEAN[c] > 0 }

\* strictly more than 20% of the April-September steps: 5 * wet > all
WetOverTwentyPct(c) == 5 * Cardinality(WetSteps(c)) > Cardinality(StepsIn(4, 9))

Qualifies(c) == veg_type_input[c] = 15 /\ DryInSpring(c) /\ WetOverTwentyPct(c)

\* C1: after one call of zone_v a cell holds 16 exactly when it held 15
\* before the call, was dry (depth <= 0) at some March-May step of the
\* reference year and wet (depth > 0) at strictly more than 20% of the
\* April-September steps, or it already held 16; every other cell keeps the
\* code it had before the call.
C1_ZoneVRule ==
    \A c \in Cells :
        /\ veg_type[c] = 16 <=> (Qualifies(c) \/ veg_type_input[c] = 16)
        /\ ~Qualifies(c) => veg_type[c] = veg_type_input[c]

\* A call has run in which one cell coded 15 went to 16, and another cell
\* coded 15, dry in spring but wet at exactly 20% of the growing-season
\* steps, stayed 15.
C1_Witness ==
    /\ water_depth # NoDataset
    /\ \E c1, c2 \in Cells :
        /\ veg_type_input[c1] = 15 /\ veg_type[c1] = 16
        /\ veg_type_input[c2] = 15 /\ veg_type[c2] = 15
        /\ DryInSpring(c2)
        /\ 5 * Cardinality(WetSteps(c2)) = Cardinality(StepsIn(4, 9))
        /\ Cardinality(WetSteps(c2)) > 0

\* C10: over any sequence of zone_v invocations the only change a cell
\* undergoes is 15 -> 16 (so a cell changes at most once, 16 stays 16, and a
\* cell that starts neither 15 nor 16 keeps its code), and an invocation
\* repeated with the same depth series and date changes no cell.
C10_OnlyFifteenToSixteen ==
    [][ /\ \A c \in Cells :
            veg_type'[c] # veg_type[c] => (veg_type[c] = 15 /\ veg_type'[c] = 16)
        /\ (water_depth' = water_depth /\ date' = date) => veg_type' = veg_type
      ]_vars

\* An invocation has run on a grid that already held a cell coded 16: that
\* cell is still 16, and the invocation moved another cell from 15 to 16.
C10_Witness ==
    /\ water_depth # NoDataset
    /\ \E c1, c2 \in Cells :
        /\ veg_type_input[c1] = 16 /\ veg_type[c1] = 16
        /\ veg_type_input[c2] = 15 /\ veg_type[c2] = 16

\* ---- claims about extract_date ----

\* f"{year:04d}": the four-digit year of a formatted date
Pad4(n) ==
    IF n < 10 THEN << "0", "0", "0" >> \o Str(n)
    ELSE IF n < 100 THEN << "0", "0" >> \o Str(n)
    ELSE IF n < 1000 THEN << "0" >> \o Str(n)
    ELSE Str(n)

\* The calendar dates DateTokens can spell as YYYY_MM_DD: 2, 13 and 29
\* February of 1900 and 2004, less 29 February 1900, which does not exist.
CalendarDates ==
    { d \in [year : {1900, 2004}, month : {2}, day : {2, 13, 29}] :
        d.day <= (IF d.year % 4 = 0 /\ (d.year % 100 # 0 \/ d.year % 400 = 0)
                  THEN 29 ELSE 28) }

\* The name prefixes that fit in front of a date within MaxTokens tokens.
Prefixes == { Join(tokens, << "_" >>) : tokens \in TokenSeqs(MaxTokens - 3) }

\* '<prefix>_YYYY_MM_DD.tif' in the source folder
BuiltPath(prefix, d) ==
    << SourceRoot,
       prefix \o << "_" >> \o Pad4(d.year) \o << "_" >> \o Pad2(d.month) \o << "_" >>
           \o Pad2(d.day) \o << ".", "t", "i", "f" >> >>

BuiltPaths ==
    { [path |-> BuiltPath(prefix, d), date |-> d] : d \in CalendarDates, prefix \in Prefixes }

\* A token read as a number: digits, after optional leading blanks (as int()
\* reads it); -1 when it is not a numeral.
NumeralOf(t) ==
    LET body == SelectSeq(t, LAMBDA c : c # " ")
    IN  IF body # << >> /\ AllDigits(body)
           /\ \A i \in 1 .. Len(t) : t[i] = " " => \A j \in 1 .. i : t[j] = " "
        THEN IntOf(body) ELSE -1

\* The last three underscore-delimited tokens of the path's stem are three
\* numerals that give a year 1..9999, a month 1..12 and a day of that month.
TailIsDate(p) ==
    LET t == Split(Stem(p), "_")
        n == Len(t)
    IN  /\ n >= 3
        /\ LET y == NumeralOf(t[n - 2])
               m == NumeralOf(t[n - 1])
               d == NumeralOf(t[n])
           IN  /\ y \in 1 .. 9999
               /\ m \in 1 .. 12
               /\ d >= 1
               /\ d <= (CASE m \in {4, 6, 9, 11} -> 30
                          [] m = 2 -> (IF y % 4 = 0 /\ (y % 100 # 0 \/ y % 400 = 0)
                                       THEN 29 ELSE 28)
                          [] OTHER -> 31)

\* C7: extract_date of a path '<prefix>_YYYY_MM_DD.<ext>' built from a
\* calendar date returns that date, for every prefix; for a path whose last
\* three stem tokens do not form a calendar date it returns None; it never
\* raises, and a date it returns is never a default: it is the date the
\* tokens spell.
C7_ExtractDateRoundTrip ==
    extracted # Pending =>
        /\ extracted.kind \in {"datetime", "None"}
        /\ \A b \in BuiltPaths :
              path = b.path => extracted = Datetime(b.date.year, b.date.month, b.date.day)
        /\ ~TailIsDate(path) => extracted = None
        /\ extracted.kind = "datetime" =>
              LET t == Split(Stem(path), "_")
              IN  /\ extracted.year = NumeralOf(t[Len(t) - 2])
                  /\ extracted.month = NumeralOf(t[Len(t) - 1])
                  /\ extracted.day = NumeralOf(t[Len(t)])

\* extract_date has returned 29 February 2004 for 'WSE_2004_02_29.tif'.
C7_Witness ==
    /\ path = BuiltPath(<< "W", "S", "E" >>, [year |-> 2004, month |-> 2, day |-> 29])
    /\ extracted = Datetime(2004, 2, 29)

\* extract_date has returned None for a name ending in 29 February 1900,
\* which is no calendar date.
C7_WitnessMalformed ==
    /\ Name(path) = << "W", "S", "E", "_", "1", "9", "0", "0", "_", "0", "2", "_", "2", "9",
                       ".", "t", "i", "f" >>
    /\ extracted = None

\* ---- claims about generate_combined_sequence ----

Ended == pc \in {"done", "failed"}

\* The row whose files were copied last has completed without error.
RowCompleted == pc = "loop" /\ idx > 1

\* The dates of the cataloged files that carry one, as a set of
\* [file, date] records.
CatalogDates ==
    { e \in { [file |-> p, date |-> extract_date(p)] : p \in source_files } : e.date # None }

\* The number of cataloged files dated within water year wy: 1 October of
\* wy - 1 through 30 September of wy.
CountOfWaterYear(wy) ==
    Cardinality({ e \in CatalogDates :
                    \/ e.date.year = wy - 1 /\ e.date.month >= 10
                    \/ e.date.year = wy /\ e.date.month <= 9 })

SourceYearOfRow(i) == args.quintile_to_year_map[args.quintile_sequence[i].Quintile]
TargetYearOfRow(i) == args.quintile_sequence[i].WaterYear

TwoDigits(n) == << DigitChar[n \div 10], DigitChar[n % 10] >>

\* 'WSE_MEAN_<year>_<mm>_<dd>.tif'
OutputName(year, month, day) ==
    << "W", "S", "E", "_", "M", "E", "A", "N", "_" >> \o Str(year) \o << "_" >>
        \o TwoDigits(month) \o << "_" >> \o TwoDigits(day) \o << ".", "t", "i", "f" >>

\* C2: every copy made for a row with target water year T, of a source file
\* dated (y, m, d), is written to the output folder under the name
\* WSE_MEAN_<Y'>_<mm>_<dd>.tif with Y' = T - 1 for October-December and
\* Y' = T for January-September; so the water year of the year and month in
\* the name is T.  Every file selected for a completed row has been copied.
C2_OutputNames ==
    /\ \A k \in 1 .. Len(copies) :
          LET c == copies[k]
              T == TargetYearOfRow(c.row)
              d == extract_date(c.src)
              tokens == Split(Stem(c.dest), "_")
              nameYear == NumeralOf(tokens[Len(tokens) - 2])
              nameMonth == NumeralOf(tokens[Len(tokens) - 1])
          IN  /\ c.dest = args.output_folder
                            \o << OutputName(IF d.month >= 10 THEN T - 1 ELSE T, d.month, d.day) >>
              /\ (IF nameMonth >= 10 THEN nameYear + 1 ELSE nameYear) = T
              /\ fs[c.dest] \in { fs_start[p] : p \in DOMAIN fs_start }
    /\ RowCompleted =>
          { copies[k].src : k \in { j \in 1 .. Len(copies) : copies[j].row = idx - 1 } }
              = { source_year_paths[k] : k \in 1 .. Len(source_year_paths) }

\* A row with target water year 2006 and source water year 2004 has been
\* copied: the 1 October 2003 raster under the year 2005, the 30 September
\* 2004 raster under the year 2006.
C2_Witness ==
    /\ RowCompleted
    /\ \E j, k \in 1 .. Len(copies) :
          /\ copies[j].src = RasterFile(SourceFolder, 2003, 10, 1)
          /\ Name(copies[j].dest) = OutputName(2005, 10, 1)
          /\ copies[k].src = RasterFile(SourceFolder, 2004, 9, 30)
          /\ Name(copies[k].dest) = OutputName(2006, 9, 30)
          /\ copies[j].row = copies[k].row

\* The catalog listed by the run without its undated files, and the run on
\* a file system without them.
UndatedOf(fsys) == { p \in ListSourceFiles(fsys, args) : extract_date(p) = None }
WithoutUndated(fsys) == [ p \in (DOMAIN fsys) \ UndatedOf(fsys) |-> fsys[p] ]

\* C3: an undated .tif file in a catalog that also holds dated files does
\* not make the run fail: it is never selected or copied, and the run ends
\* with the error and the output folder it would end with if the file were
\* absent.
C3_UndatedFileIgnored ==
    (Ended /\ ListSourceFiles(WithoutUndated(fs_start), args) # {}) =>
        LET ref == RunResult(WithoutUndated(fs_start), args)
        IN  /\ err = ref.err
            /\ OutputListing(fs, args) = OutputListing(ref.fs, args)
            /\ \A k \in 1 .. Len(copies) : extract_date(copies[k].src) # None

\* The rows whose source water year has fewer than 12 dated catalog files.
IncompleteRows ==
    { i \in 1 .. Len(args.quintile_sequence) :
        CountOfWaterYear(SourceYearOfRow(i)) < 12 }

\* C4: when a run that has listed a catalog comes to a row whose source
\* water year has fewer than 12 dated catalog files, it ends there with the
\* 'missing data' error (ValueError), having copied nothing for that row or
\* any later one.
C4_IncompleteYearRaises ==
    (Ended /\ source_files # {} /\ IncompleteRows # {}) =>
        LET i == CHOOSE r \in IncompleteRows : \A q \in IncompleteRows : r <= q
        IN  /\ pc = "failed"
            /\ err = "ValueError"
            /\ idx = i
            /\ \A k \in 1 .. Len(copies) : copies[k].row < i

\* C5: when a run on a catalog of dated files ends at a row whose source
\* water year has no catalog file at all, the error is the catalog error
\* (FileNotFoundError), not the 'missing data' error (ValueError) of a year
\* with 1 to 11 files.
C5_MissingYearIsCatalogError ==
    ( /\ pc = "failed"
      /\ source_files # {}
      /\ Cardinality(CatalogDates) = Cardinality(source_files)
      /\ idx \in 1 .. Len(args.quintile_sequence)
      /\ source_year_paths = << >>
      /\ CountOfWaterYear(SourceYearOfRow(idx)) = 0 )
    => err = "FileNotFoundError"

Nested == IsUnder(args.output_folder, args.source_folder)

SameAsFirstRun ==
    /\ err = first.err
    /\ OutputListing(fs, args) = first.output

\* C6 as claimed: for every source and output folder, a second run with the
\* same arguments ends with the same outcome and leaves the output folder
\* with the same file names and contents as the first.
C6_Idempotent == (run = 2 /\ Ended) => SameAsFirstRun

\* C6: when the output folder lies outside the source folder, a second run
\* with the same arguments ends with the same outcome (success or the same
\* error) and leaves the output folder with the same file names and contents
\* as the first.
C6_IdempotentOutsideSource == (run = 2 /\ Ended /\ ~Nested) => SameAsFirstRun

\* A second run has succeeded on a two-row sequence, outside the source
\* folder, and the output folder holds the 24 files of the first run.
C6_Witness ==
    /\ run = 2 /\ pc = "done" /\ ~Nested
    /\ Len(args.quintile_sequence) = 2
    /\ Cardinality(first.output) = 24
    /\ SameAsFirstRun

\* A second run has failed, as the first did, after copying its first row.
C6_WitnessFailed ==
    /\ run = 2 /\ pc = "failed" /\ ~Nested
    /\ err = "ValueError"
    /\ Cardinality(first.output) = 12
    /\ SameAsFirstRun

\* The dates and months of the selection of the row just completed.
SelectedDates == { extract_date(source_year_paths[k]) : k \in 1 .. Len(source_year_paths) }

GapFree ==
    LET dates == SelectedDates
    IN  /\ Cardinality(dates) = Len(source_year_paths)
        /\ \A ym \in WaterYearMonths(SourceYearOfRow(idx - 1)) :
              \E d \in dates : d.year = ym.year /\ d.month = ym.month

\* The catalog has at most one dated file per calendar month.
MonthlyCadence ==
    LET dated == CatalogDates
    IN  \A e1, e2 \in dated :
            (e1.date.year = e2.date.year /\ e1.date.month = e2.date.month) => e1 = e2

WithinSourceYear ==
    \A d \in SelectedDates :
        \/ d.year = SourceYearOfRow(idx - 1) - 1 /\ d.month >= 10
        \/ d.year = SourceYearOfRow(idx - 1) /\ d.month <= 9

\* C8 as claimed: the selection of every completed row is a gap-free water
\* year: pairwise distinct dates, every month from October to September
\* represented.
C8_GapFree == RowCompleted => GapFree

\* C8: the selection of every completed row holds at least 12 files, each
\* dated within 1 October of Y - 1 to 30 September of Y; it is a gap-free
\* water year when the catalog has at most one dated file per calendar month.
C8_TwelveWithinYear ==
    RowCompleted =>
        /\ Len(source_year_paths) >= 12
        /\ WithinSourceYear
        /\ MonthlyCadence => GapFree

\* A row has completed on a monthly catalog: 12 files, one per month.
C8_Witness ==
    /\ RowCompleted
    /\ MonthlyCadence
    /\ Len(source_year_paths) = 12
    /\ GapFree

DistinctDestinations ==
    \A j, k \in 1 .. Len(copies) : j # k => copies[j].dest # copies[k].dest

\* C9 as claimed: within one run no two copy steps write to the same
\* destination name.
C9_UniqueNames == DistinctDestinations

DistinctTargetYears ==
    \A i, j \in 1 .. Len(args.quintile_sequence) :
        i # j => TargetYearOfRow(i) # TargetYearOfRow(j)

DistinctDates ==
    LET dated == CatalogDates
    IN  \A e1, e2 \in dated : e1.date = e2.date => e1 = e2

\* C9: within one run no two copy steps write to the same destination name,
\* when the target water years of the rows are pairwise distinct and no two
\* dated catalog files carry the same date.
C9_UniqueNamesDistinctInputs ==
    DistinctDestinations \/ ~DistinctTargetYears \/ ~DistinctDates

\* A run has copied the rows of the adjacent target years 2005 and 2006, 24
\* files under 24 names.
C9_Witness ==
    /\ pc = "done"
    /\ Len(copies) = 24
    /\ DistinctTargetYears /\ DistinctDates
    /\ { TargetYearOfRow(i) : i \in 1 .. Len(args.quintile_sequence) } = {2005, 2006}
    /\ Cardinality({ copies[k].dest : k \in 1 .. Len(copies) }) = 24

\* The variables of a run agree with the run as a function of its start.
RunMatchesFunction ==
    Ended =>
        LET ref == RunResult(fs_start, args)
        IN  fs = ref.fs /\ err = ref.err /\ copies = ref.copies

====
